---- MODULE Spec2Model ----
(***************************************************************************)
(* Model of the application release reconciler of porter:                  *)
(* CreatePorterAppHandler.ServeHTTP                                       *)
(* (api/server/handlers/porter_app/create.go).                             *)
(*                                                                         *)
(* Every call the handler makes on the orchestration platform (helm/k8s    *)
(* agents) or on the relational store is one atomic step of the request's  *)
(* goroutine; the statements between two calls belong to the step of the   *)
(* call before them.  Requests for the one application run concurrently,   *)
(* one goroutine each, as net/http runs them.                              *)
(***************************************************************************)
EXTENDS Naturals, Sequences, FiniteSets

\* ---------------------------------------------------------------- bounds
\* Requests served in one behaviour, over all goroutines.
MaxRequests == 3

\* Requests served in one behaviour of the concurrent specification.
MaxConcRequests == 3

\* Requests served in one behaviour of the specification of the row's patch.
MaxPatchRequests == 2

\* Requests served in one behaviour of the specification of the deploy hook.
MaxHookRequests == 2

\* The longest build-output string of the deploy hook.
MaxLen == 3

\* The longest configured database encryption key, in bytes.
MaxKeyLen == 34

\* var key [32]byte
KeyLen == 32

\* The goroutines serving requests for the application.
Procs == {"g1", "g2"}

\* ------------------------------------------------------------ value sets
stackName == "api"

\* A string whose characters matter is the sequence of its characters.
\* types.ImageInfo values of a request: the zero value, or a full pair.
ZeroImage == [repository |-> <<>>, tag |-> <<>>]
ImageInfos == {ZeroImage, [repository |-> <<"r">>, tag |-> <<"t">>]}

\* A full pair is one whose repository and tag are both non-empty.
PartialImage == [repository |-> <<"r">>, tag |-> <<>>]

\* The build-output strings: driverOutput["image"] when it is a string.
Alphabet == {"r", ":"}
Strings == UNION {[1..n -> Alphabet] : n \in 0..MaxLen}

\* driverOutput["image"]: absent or not a string, or a string.
NoImageOutput == [isString |-> FALSE, image |-> <<>>]
DriverOutputs == {NoImageOutput} \cup {[isString |-> TRUE, image |-> s] : s \in Strings}

\* request.Builder: not given, the clear sentinel, or a buildpack builder.
Builders == {"", "null", "heroku"}

\* What the manifest (porter.yaml) describes: a web service only, or a web
\* service and a release job.
Manifests == {"web", "webjob"}

\* Values of a chart: the main release's config map.
NoValues == [manifest |-> "", image |-> ZeroImage, launcher |-> FALSE]

\* A release slot of the platform (helm release.Release); exists = FALSE is
\* "no such release".  jobValues "" is the nil map.
NoRelease == [exists |-> FALSE, version |-> 0, config |-> NoValues, jobValues |-> ""]

\* The cluster of the request's scope, and its project.
cluster == [id |-> 1, projectID |-> 1]

\* request.GitRepoID and request.PorterYamlPath.
GitRepoIDs == {0, 7}
PorterYamlPaths == {"", "porter.yaml"}

\* models.PorterApp: the zero struct is what a read that finds nothing yields.
EmptyApp ==
  [id |-> 0, name |-> "", clusterID |-> 0, projectID |-> 0, gitRepoID |-> 0,
   porterYamlPath |-> "", repoName |-> "", gitBranch |-> "", buildContext |-> "",
   builder |-> "", buildpacks |-> "", dockerfile |-> "", imageRepoURI |-> "",
   pullRequestURL |-> ""]

\* The request body, types.CreatePorterAppRequest.
Requests ==
  [ override : BOOLEAN,        \* OverrideRelease
    yamlOk   : BOOLEAN,        \* PorterYAMLBase64 is valid base64
    manifest : Manifests,      \* the decoded porter.yaml
    image    : ImageInfos,     \* ImageInfo
    builder  : Builders,       \* Builder
    repoName : {""}, gitBranch : {""}, buildContext : {""}, buildpacks : {""},
    dockerfile : {""}, imageRepoURI : {""}, pullRequestURL : {""},
    gitRepoID : {0}, porterYamlPath : {""} ]

\* The requests of the concurrent specification: the fields that choose the
\* path vary, the others are fixed.
ConcRequests ==
  {r \in Requests : r.yamlOk /\ r.image = ZeroImage /\ r.builder = ""}

NoRequest ==
  [override |-> FALSE, yamlOk |-> TRUE, manifest |-> "web", image |-> ZeroImage,
   builder |-> "", repoName |-> "", gitBranch |-> "", buildContext |-> "",
   buildpacks |-> "", dockerfile |-> "", imageRepoURI |-> "", pullRequestURL |-> "",
   gitRepoID |-> 0, porterYamlPath |-> ""]

\* The fields of the row that an update patches, and the values a request of
\* the patch specification gives one of them.
PatchableFields ==
  {"repoName", "gitBranch", "buildContext", "builder", "buildpacks", "dockerfile",
   "imageRepoURI", "pullRequestURL"}
Incoming == {"", "null", "a", "b"}

PatchRequests ==
  {[NoRequest EXCEPT ![fld] = v] : fld \in PatchableFields, v \in Incoming}
    \cup {[NoRequest EXCEPT !.gitRepoID = g, !.porterYamlPath = y] :
            g \in GitRepoIDs, y \in PorterYamlPaths}

\* The requests the dashboard sends in the specification of the deploy hook.
HookApiRequests ==
  {[NoRequest EXCEPT !.override = o, !.manifest = m, !.image = i] :
     o \in BOOLEAN, m \in Manifests, i \in ImageInfos \cup {PartialImage}}

\* The errors handed to HandleAPIError, by the message of the source.
ErrDecodeRequest == "error decoding request"
ErrURLParam      == "error reading stack name"
ErrHelmAgent     == "error getting helm agent"
ErrK8sAgent      == "error getting k8s agent"
ErrDecodeYaml    == "error decoding porter.yaml"
ErrRegistries    == "error listing registries"
ErrParse         == "error parsing porter.yaml into chart and values"
ErrNamespace     == "error creating namespace"
ErrJobConfig     == "error making config for release job chart"
ErrJobInstall    == "error creating release job chart"
ErrJobUninstall  == "error uninstalling release job chart"
ErrJobLoad       == "error loading release job chart"
ErrJobUpgrade    == "error upgrading release job chart"
ErrDeploy        == "error deploying app"
ErrUninstall     == "error uninstalling chart"
ErrReadApp       == "error reading app"
ErrConflict      == "app already exists in your project"
ErrWriteApp      == "error writing app to DB"

VARIABLES
  ns,        \* the namespace porter-stack-<name> exists on the cluster
  main,      \* the main release <name> on the platform
  job,       \* the job release <name>-r on the platform
  apps,      \* the porter_apps table, in insertion order
  events,    \* the porter_app_events table, in insertion order
  started,   \* requests received so far
  h,         \* h[p]: the frame of goroutine p's ServeHTTP call
  pre,       \* history: the platform and the store when the latest request of
             \* the sequential specification was received
  cli,       \* the deploy hook of the command-line client
  boot       \* the start-up of the server process (main)

vars == <<ns, main, job, apps, events, started, h, pre, cli, boot>>

\* repeat: the request received has the body of the one before it, which
\* upgraded the main release on the update path.
Snapshot(repeat) ==
  [ns |-> ns, main |-> main, job |-> job, apps |-> apps, events |-> events,
   repeat |-> repeat]

\* The frame of a request that has not started.
IdleFrame ==
  [ pc               |-> "idle",
    request          |-> NoRequest,
    body             |-> NoRequest,   \* history: the request as it was received
    helmRelease      |-> NoRelease,   \* the probed release (nil = NoRelease)
    probeErr         |-> FALSE,       \* err of the GetRelease probe was non-nil
    shouldCreate     |-> FALSE,
    imageInfo        |-> ZeroImage,
    values           |-> NoValues,
    releaseJobValues |-> "",
    app              |-> EmptyApp,    \* the row read / to be written
    calls            |-> <<>>,        \* calls issued, in order, with outcome
    errs             |-> <<>>,        \* errors written with HandleAPIError
    result           |-> EmptyApp,    \* the body of WriteResult
    wrote            |-> FALSE,       \* WriteResult was called
    revision         |-> 0,           \* the revision given to createPorterAppEvent
    \* History, not read by the handler:
    mainAtProbe      |-> NoRelease,   \* the main release on the platform when probed
    jobExisted       |-> FALSE,       \* the job release existed when its action was chosen
    postVersion      |-> 0 ]          \* the main release's version right after the
                                      \* install/upgrade of this request

Call(op, ok) == [op |-> op, ok |-> ok]

\* The frame f after one more call, and after one more reported error.
Called(f, op, ok) == [f EXCEPT !.calls = Append(@, Call(op, ok))]
HandleAPIError(f, e) == [f EXCEPT !.errs = Append(@, e)]
Return(f) == [f EXCEPT !.pc = "done"]
Goto(f, l) == [f EXCEPT !.pc = l]

Ops(f) == {f.calls[i].op : i \in 1..Len(f.calls)}


\* ------------------------------------------------- the platform (helm agent)
\* Each operator gives the error flag and the slot after the call.  ok is the
\* platform's answer when nothing about the slot decides it.

\* helmAgent.GetRelease: the release, or an error when there is none or the
\* query fails.
GetRelease(slot, ok) ==
  IF ok /\ slot.exists THEN [err |-> FALSE, release |-> slot]
                       ELSE [err |-> TRUE, release |-> NoRelease]

\* helmAgent.InstallChart: a name in use is refused; a failed install may
\* leave the partially created release behind (outcome "partial").
InstallChart(slot, outcome, config, jobValues) ==
  IF slot.exists THEN [err |-> TRUE, slot |-> slot]
  ELSE IF outcome = "ok"
    THEN [err |-> FALSE,
          slot |-> [exists |-> TRUE, version |-> 1, config |-> config,
                    jobValues |-> jobValues]]
  ELSE IF outcome = "partial"
    THEN [err |-> TRUE,
          slot |-> [exists |-> TRUE, version |-> 1, config |-> config,
                    jobValues |-> jobValues]]
  ELSE [err |-> TRUE, slot |-> slot]

InstallOutcomes == {"ok", "partial", "fail"}

\* helmAgent.UpgradeInstallChart: upgrades the release, installs it when it
\* is not there.
UpgradeInstallChart(slot, ok, config) ==
  IF ~ok THEN [err |-> TRUE, slot |-> slot]
  ELSE [err |-> FALSE,
        slot |-> [exists |-> TRUE,
                  version |-> IF slot.exists THEN slot.version + 1 ELSE 1,
                  config |-> config, jobValues |-> slot.jobValues]]

\* helmAgent.UpgradeReleaseByValues: a strict upgrade of an existing release.
UpgradeReleaseByValues(slot, ok, jobValues) ==
  IF ok /\ slot.exists
    THEN [err |-> FALSE,
          slot |-> [slot EXCEPT !.version = @ + 1, !.jobValues = jobValues]]
    ELSE [err |-> TRUE, slot |-> slot]

\* helmAgent.UninstallChart: removes the release of that name, whoever
\* installed it; an error when there is none or the call fails.
UninstallChart(slot, ok) ==
  IF ok /\ slot.exists THEN [err |-> FALSE, slot |-> NoRelease]
                       ELSE [err |-> TRUE, slot |-> slot]

\* ------------------------------------------------- the relational store
\* Repo().PorterApp().ReadPorterAppByName: the first row of that name, the
\* zero struct when there is none.
RowsByName(rows, name) == {i \in 1..Len(rows) : rows[i].name = name}

ReadPorterAppByName(rows, name) ==
  IF RowsByName(rows, name) = {} THEN EmptyApp
  ELSE rows[CHOOSE i \in RowsByName(rows, name) :
                \A j \in RowsByName(rows, name) : i <= j]

\* Repo().PorterApp().UpdatePorterApp: a save keyed by the primary key; a
\* struct without one is inserted under a fresh key.
UpdatePorterApp(rows, app) ==
  IF app.id = 0 THEN Append(rows, [app EXCEPT !.id = Len(rows) + 1])
  ELSE [i \in 1..Len(rows) |-> IF rows[i].id = app.id THEN app ELSE rows[i]]

SavedApp(rows, app) ==
  IF app.id = 0 THEN [app EXCEPT !.id = Len(rows) + 1] ELSE app

\* models.PorterAppEvent as createPorterAppEvent builds it.
PorterAppEvent(status, appID, revision) ==
  [status |-> status, type |-> "DEPLOY", source |-> "KUBERNETES",
   appID |-> appID, revision |-> revision]

\* ------------------------------------------------- pure parts of the handler
\* A probe that takes an error for a found release.
ShouldCreateInverted(err) == ~err

\* shouldCreate := err != nil
ShouldCreate(err) == err

\* attemptToGetImageInfoFromRelease: the image stored in a release's config.
attemptToGetImageInfoFromRelease(config) == config.image

\* An image resolution in which the stored image wins over the request's.
ResolveImageInfoReleaseFirst(request, shouldCreate, helmRelease) ==
  IF (shouldCreate \/ request.override) /\ helmRelease.exists
    THEN attemptToGetImageInfoFromRelease(helmRelease.config)
    ELSE request.image

\* The image info handed to parse (create.go, lines 85-107).
ResolveImageInfo(request, shouldCreate, helmRelease) ==
  IF (shouldCreate \/ request.override)
     /\ helmRelease.exists
     /\ (request.image.repository = <<>> \/ request.image.tag = <<>>)
    THEN attemptToGetImageInfoFromRelease(helmRelease.config)
    ELSE request.image

\* releaseValues: the prior release's values, carried forward only on an
\* update without override.
ReleaseValues(request, shouldCreate, helmRelease) ==
  IF shouldCreate \/ request.override THEN NoValues ELSE helmRelease.config

\* injectLauncher
InjectLauncher(builder) == builder \in {"heroku", "paketo"}

\* parse: the values of the main chart and of the release job (nil = "").
\* An image that is not a full pair leaves the image of the prior values.
parse(manifest, imageInfo, releaseValues, injectLauncher) ==
  [ values |->
      [ manifest |-> manifest,
        image    |-> IF imageInfo.repository = <<>> \/ imageInfo.tag = <<>>
                       THEN releaseValues.image ELSE imageInfo,
        launcher |-> injectLauncher ],
    releaseJobValues |-> IF manifest = "webjob" THEN "job" ELSE "" ]

\* A create path that installs without creating the namespace.
AfterParseSkipsNamespace(shouldCreate, override) ==
  IF shouldCreate THEN "installMain"
  ELSE IF override THEN "jobProbe"
  ELSE "upgradeMain"

\* An update path that manages the job release whatever the override flag.
AfterParseAlwaysJob(shouldCreate, override) ==
  IF shouldCreate THEN "createNamespace" ELSE "jobProbe"

\* Where the handler goes after a successful parse (lines 140, 149, 236).
AfterParse(shouldCreate, override) ==
  IF shouldCreate THEN "createNamespace"
  ELSE IF override THEN "jobProbe"
  ELSE "upgradeMain"

\* After the namespace: the release job is installed first when the request
\* overrides and the manifest has one (line 149).
AfterNamespace(override, releaseJobValues) ==
  IF override /\ releaseJobValues # "" THEN "createJob" ELSE "installMain"

\* After the probe of the job release on the update path (lines 239, 267).
AfterJobProbe(err, releaseJobValues) ==
  IF err THEN "installJob"
  ELSE IF releaseJobValues = "" THEN "uninstallJob"
  ELSE "upgradeJob"

\* ------------------------------------------------- the deploy hook (CLI)
\* strings.Split(s, ":"): the pieces of s between its colons.
Colons(s) == {i \in 1..Len(s) : s[i] = ":"}

RECURSIVE Split(_)
Split(s) ==
  IF Colons(s) = {} THEN <<s>>
  ELSE LET i == CHOOSE c \in Colons(s) : \A d \in Colons(s) : c <= d
       IN <<SubSeq(s, 1, i - 1)>> \o Split(SubSeq(s, i + 1, Len(s)))

\* applyStack, lines 64-73: the image info of the build output; indexing the
\* second piece panics when there is none.
ImageOfOutput(out) ==
  IF out.isString /\ out.image # <<>>
    THEN LET imageSpl == Split(out.image)
         IN IF Len(imageSpl) < 2
              THEN [panic |-> TRUE, imageInfo |-> ZeroImage]
              ELSE [panic |-> FALSE,
                    imageInfo |-> [repository |-> imageSpl[1], tag |-> imageSpl[2]]]
    ELSE [panic |-> FALSE, imageInfo |-> ZeroImage]

\* types.CreateStackReleaseRequest as applyStack fills it.
StackRequest(porterYAML, imageInfo) ==
  [NoRequest EXCEPT !.manifest = porterYAML, !.image = imageInfo]

\* ------------------------------------------------- the server's start-up
\* appConf.Db.EncryptionKey as bytes: of every length, of one byte repeated
\* or of two bytes in turn.
KeyBytes == {1, 2}
EncryptionKeys ==
  {[i \in 1..n |-> b] : n \in 0..MaxKeyLen, b \in KeyBytes}
    \cup {[i \in 1..n |-> (i % 2) + 1] : n \in 0..MaxKeyLen}

\* var key [32]byte: the zero array.
ZeroKey == [j \in 1..KeyLen |-> 0]

\* main before it has run.
IdleBoot ==
  [ pc            |-> "start",
    encryptionKey |-> <<>>,      \* []byte(appConf.Db.EncryptionKey)
    i             |-> 0,         \* the index of the range loop
    key           |-> ZeroKey,
    written       |-> {} ]       \* history: the indices of key assigned to

\* The hook before a deploy.
IdleHook ==
  [ pc           |-> "idle",
    driverOutput |-> NoImageOutput,   \* driverOutput["image"]
    porterYAML   |-> "web",           \* t.PorterYAML
    shouldCreate |-> FALSE,
    imageInfo    |-> ZeroImage ]

Init ==
  /\ ns = FALSE
  /\ main = NoRelease
  /\ job = NoRelease
  /\ apps = <<>>
  /\ events = <<>>
  /\ started = 0
  /\ h = [p \in Procs |-> IdleFrame]
  /\ pre = Snapshot(FALSE)
  /\ cli = IdleHook
  /\ boot = IdleBoot

\* ------------------------------------------------- the handler, step by step
\* Lines 43-75: a request arrives; decoding it, the URL parameter and the two
\* agents can each fail.
EarlyErrors == {ErrDecodeRequest, ErrURLParam, ErrHelmAgent, ErrK8sAgent}

Receive(p, requests, max) ==
  /\ h[p].pc \in {"idle", "done"}
  /\ started < max
  /\ started' = started + 1
  /\ \/ \E r \in requests :
          h' = [h EXCEPT ![p] = [IdleFrame EXCEPT !.pc = "probe", !.request = r,
                                                !.body = r]]
     \/ \E e \in EarlyErrors :
          h' = [h EXCEPT ![p] = Return(HandleAPIError(IdleFrame, e))]
  /\ UNCHANGED <<ns, main, job, apps, events, boot>>

\* The frame next receives the body that the frame last had, and last
\* upgraded the main release on the update path.
Repeats(last, next) ==
  /\ next.pc = "probe"
  /\ next.body = last.body
  /\ Call("GetRelease", TRUE) \in {last.calls[i] : i \in 1..Len(last.calls)}
  /\ Call("UpgradeInstallMain", TRUE) \in {last.calls[i] : i \in 1..Len(last.calls)}

\* A request of the sequential specification; what it found is remembered.
Start(p) ==
  /\ Receive(p, Requests, MaxRequests)
  /\ pre' = Snapshot(Repeats(h[p], h'[p]))
  /\ cli' = cli

\* A request of the concurrent specification.
StartConc(p) ==
  /\ Receive(p, ConcRequests, MaxConcRequests)
  /\ UNCHANGED <<pre, cli>>

\* A request for the row's patch: one patchable field is given.
StartPatch(p) ==
  /\ Receive(p, PatchRequests, MaxPatchRequests)
  /\ pre' = Snapshot(FALSE)
  /\ cli' = cli

\* A request of the dashboard while the hook is not running; a hook that has
\* sent its request has returned by then.
StartApi(p) ==
  /\ cli.pc \in {"idle", "sent", "panic"}
  /\ Receive(p, HookApiRequests, MaxHookRequests)
  /\ pre' = Snapshot(FALSE)
  /\ cli' = IF cli.pc = "sent" THEN IdleHook ELSE cli

\* The build has ended and the hook is run with its output.
HookRun ==
  /\ cli.pc \in {"idle", "sent"}
  /\ h["g1"].pc \in {"idle", "done"}
  /\ started < MaxHookRequests
  /\ \E out \in DriverOutputs, yaml \in Manifests :
       cli' = [IdleHook EXCEPT !.pc = "postApply", !.driverOutput = out,
                               !.porterYAML = yaml]
  /\ UNCHANGED <<ns, main, job, apps, events, started, h, pre, boot>>

\* PostApply, lines 40-61: the hook's own probe of the release.
PostApply ==
  /\ cli.pc = "postApply"
  /\ \E ok \in BOOLEAN :
       cli' = [cli EXCEPT !.pc = "applyStack",
                          !.shouldCreate = ShouldCreate(GetRelease(main, ok).err)]
  /\ UNCHANGED <<ns, main, job, apps, events, started, h, pre, boot>>

\* applyStack, lines 63-73: the image info is taken from the build output.
ApplyStack ==
  /\ cli.pc = "applyStack"
  /\ LET got == ImageOfOutput(cli.driverOutput)
     IN cli' = IF got.panic THEN [cli EXCEPT !.pc = "panic"]
               ELSE [cli EXCEPT !.pc = "send", !.imageInfo = got.imageInfo]
  /\ UNCHANGED <<ns, main, job, apps, events, started, h, pre, boot>>

\* applyStack, lines 75-104: CreateStack or UpdateStack carries the request to
\* the handler.
SendStack(p) ==
  /\ cli.pc = "send"
  /\ Receive(p, {StackRequest(cli.porterYAML, cli.imageInfo)}, MaxHookRequests)
  /\ pre' = Snapshot(FALSE)
  /\ cli' = [cli EXCEPT !.pc = "sent"]

\* main, lines 23-62: the configuration is read, the database is opened and
\* migrated; a failure of either ends the process.
LoadConfig ==
  /\ boot.pc = "start"
  /\ \E ok \in BOOLEAN, k \in EncryptionKeys :
       boot' = IF ok THEN [boot EXCEPT !.pc = "copy", !.encryptionKey = k]
                     ELSE [boot EXCEPT !.pc = "fatal"]
  /\ UNCHANGED <<ns, main, job, apps, events, started, h, pre, cli>>

\* A copy that assigns past the end of the array.
CopyKeyByteUnchecked ==
  /\ boot.pc = "copy"
  /\ boot.i < Len(boot.encryptionKey)
  /\ LET n == IF boot.i < Len(boot.key) THEN Len(boot.key) ELSE boot.i + 1
     IN boot' = [boot EXCEPT
                   !.key = [j \in 1..n |->
                              IF j = boot.i + 1 THEN boot.encryptionKey[j]
                              ELSE IF j <= Len(boot.key) THEN boot.key[j] ELSE 0],
                   !.written = @ \cup {boot.i},
                   !.i = @ + 1]
  /\ UNCHANGED <<ns, main, job, apps, events, started, h, pre, cli>>

\* main, lines 64-66: one iteration of the copy; an index past the end of
\* the array is a run-time panic, before anything is assigned.
CopyKeyByte ==
  /\ boot.pc = "copy"
  /\ boot.i < Len(boot.encryptionKey)
  /\ boot' = IF boot.i < KeyLen
               THEN [boot EXCEPT !.key[boot.i + 1] = boot.encryptionKey[boot.i + 1],
                                 !.written = @ \cup {boot.i},
                                 !.i = @ + 1]
               ELSE [boot EXCEPT !.pc = "panic"]
  /\ UNCHANGED <<ns, main, job, apps, events, started, h, pre, cli>>

\* main, line 68: the loop has ended and the repository gets the key.
NewRepository ==
  /\ boot.pc = "copy"
  /\ boot.i = Len(boot.encryptionKey)
  /\ boot' = [boot EXCEPT !.pc = "serving"]
  /\ UNCHANGED <<ns, main, job, apps, events, started, h, pre, cli>>

\* Lines 76-84: the probe of the main release, then the base64 decoding.
Probe(p) ==
  /\ h[p].pc = "probe"
  /\ \E ok \in BOOLEAN :
       LET got == GetRelease(main, ok)
           f1  == Called([h[p] EXCEPT !.helmRelease = got.release,
                                      !.mainAtProbe = main,
                                      !.probeErr = got.err,
                                      !.shouldCreate = ShouldCreate(got.err)],
                         "GetRelease", ~got.err)
       IN h' = [h EXCEPT ![p] =
                  IF ~f1.request.yamlOk
                    THEN Return(HandleAPIError(f1, ErrDecodeYaml))
                    ELSE Goto(f1, "registries")]
  /\ UNCHANGED <<ns, main, job, apps, events, started, pre, cli, boot>>

\* Lines 85-109: the registries, then the image info.
ListRegistries(p) ==
  /\ h[p].pc = "registries"
  /\ \E ok \in BOOLEAN :
       LET f  == h[p]
           f1 == Called(f, "ListRegistries", ok)
       IN h' = [h EXCEPT ![p] =
                  IF ~ok THEN Return(HandleAPIError(f1, ErrRegistries))
                  ELSE Goto([f1 EXCEPT !.imageInfo =
                                ResolveImageInfo(f.request, f.shouldCreate, f.helmRelease)],
                            IF f.request.builder = "" THEN "readBuilder" ELSE "parse")]
  /\ UNCHANGED <<ns, main, job, apps, events, started, pre, cli, boot>>

\* Lines 109-115: the builder of the stored row, when the request names none.
ReadBuilder(p) ==
  /\ h[p].pc = "readBuilder"
  /\ \E ok \in BOOLEAN :
       LET f1 == Called(h[p], "ReadPorterAppByName", ok)
       IN h' = [h EXCEPT ![p] =
                  Goto(IF ok
                         THEN [f1 EXCEPT !.request.builder =
                                 ReadPorterAppByName(apps, stackName).builder]
                         ELSE f1,
                       "parse")]
  /\ UNCHANGED <<ns, main, job, apps, events, started, pre, cli, boot>>

\* parse whose error is reported without returning.
ParseGoesOn(p) ==
  /\ h[p].pc = "parse"
  /\ \E ok \in BOOLEAN :
       LET f   == h[p]
           f1  == Called(f, "parse", ok)
           out == parse(f.request.manifest, f.imageInfo,
                        ReleaseValues(f.request, f.shouldCreate, f.helmRelease),
                        InjectLauncher(f.request.builder))
           f2  == Goto([f1 EXCEPT !.values = out.values,
                                  !.releaseJobValues = out.releaseJobValues],
                       AfterParse(f.shouldCreate, f.request.override))
       IN h' = [h EXCEPT ![p] = IF ~ok THEN HandleAPIError(f2, ErrParse) ELSE f2]
  /\ UNCHANGED <<ns, main, job, apps, events, started, pre, cli, boot>>

\* Lines 116-140: parse, which can fail on the manifest or on its own calls.
Parse(p) ==
  /\ h[p].pc = "parse"
  /\ \E ok \in BOOLEAN :
       LET f   == h[p]
           f1  == Called(f, "parse", ok)
           out == parse(f.request.manifest, f.imageInfo,
                        ReleaseValues(f.request, f.shouldCreate, f.helmRelease),
                        InjectLauncher(f.request.builder))
       IN h' = [h EXCEPT ![p] =
                  IF ~ok THEN Return(HandleAPIError(f1, ErrParse))
                  ELSE Goto([f1 EXCEPT !.values = out.values,
                                       !.releaseJobValues = out.releaseJobValues],
                            AfterParse(f.shouldCreate, f.request.override))]
  /\ UNCHANGED <<ns, main, job, apps, events, started, pre, cli, boot>>


\* ------------------------------------------------- the create path
\* Lines 141-149: the namespace; "already exists" is no error.
CreateNamespace(p) ==
  /\ h[p].pc = "createNamespace"
  /\ \E ok \in BOOLEAN :
       LET f  == h[p]
           f1 == Called(f, "CreateNamespace", ok)
       IN /\ ns' = (ns \/ ok)
          /\ h' = [h EXCEPT ![p] =
                     IF ~ok THEN Return(HandleAPIError(f1, ErrNamespace))
                     ELSE Goto([f1 EXCEPT !.jobExisted = job.exists],
                               AfterNamespace(f.request.override, f.releaseJobValues))]
  /\ UNCHANGED <<main, job, apps, events, started, pre, cli, boot>>

\* Lines 150-165: the release job's chart config, then its install.
CreateJob(p) ==
  /\ h[p].pc = "createJob"
  /\ \/ /\ h' = [h EXCEPT ![p] = Return(HandleAPIError(h[p], ErrJobConfig))]
        /\ job' = job
     \/ \E o \in InstallOutcomes :
          LET f   == h[p]
              got == InstallChart(job, o, NoValues, f.releaseJobValues)
              f1  == Called(f, "InstallJob", ~got.err)
          IN /\ job' = got.slot
             /\ h' = [h EXCEPT ![p] =
                        IF got.err
                          THEN Goto(HandleAPIError(f1, ErrJobInstall), "createJobRollback")
                          ELSE Goto(f1, "installMain")]
  /\ UNCHANGED <<ns, main, apps, events, started, pre, cli, boot>>

\* Lines 166-170: the job release is uninstalled after its failed install.
CreateJobRollback(p) ==
  /\ h[p].pc = "createJobRollback"
  /\ \E ok \in BOOLEAN :
       LET got == UninstallChart(job, ok)
           f1  == Called(h[p], "UninstallJob", ~got.err)
       IN /\ job' = got.slot
          /\ h' = [h EXCEPT ![p] =
                     Return(IF got.err THEN HandleAPIError(f1, ErrJobUninstall) ELSE f1)]
  /\ UNCHANGED <<ns, main, apps, events, started, pre, cli, boot>>

\* Lines 174-188: the install of the main release.
InstallMain(p) ==
  /\ h[p].pc = "installMain"
  /\ \E o \in InstallOutcomes :
       LET f   == h[p]
           got == InstallChart(main, o, f.values, "")
           f1  == Called(f, "InstallMain", ~got.err)
       IN /\ main' = got.slot
          /\ h' = [h EXCEPT ![p] =
                     IF got.err
                       THEN Goto(HandleAPIError(f1, ErrDeploy), "mainRollback")
                       ELSE Goto([f1 EXCEPT !.postVersion = got.slot.version], "recheck")]
  /\ UNCHANGED <<ns, job, apps, events, started, pre, cli, boot>>

\* A rollback whose own error replaces the install error.
MainRollbackMasks(p) ==
  /\ h[p].pc = "mainRollback"
  /\ \E ok \in BOOLEAN :
       LET got == UninstallChart(main, ok)
           f1  == Called(h[p], "UninstallMain", ~got.err)
       IN /\ main' = got.slot
          /\ h' = [h EXCEPT ![p] =
                     Return(IF got.err THEN [f1 EXCEPT !.errs = <<ErrUninstall>>] ELSE f1)]
  /\ UNCHANGED <<ns, job, apps, events, started, pre, cli, boot>>

\* Lines 189-194: the main release is uninstalled after its failed install.
MainRollback(p) ==
  /\ h[p].pc = "mainRollback"
  /\ \E ok \in BOOLEAN :
       LET got == UninstallChart(main, ok)
           f1  == Called(h[p], "UninstallMain", ~got.err)
       IN /\ main' = got.slot
          /\ h' = [h EXCEPT ![p] =
                     Return(IF got.err THEN HandleAPIError(f1, ErrUninstall) ELSE f1)]
  /\ UNCHANGED <<ns, job, apps, events, started, pre, cli, boot>>

\* Lines 207-222: the row of a new application.
NewApp(request) ==
  [id |-> 0, name |-> stackName,
   clusterID |-> cluster.id, projectID |-> cluster.projectID,
   gitRepoID |-> request.gitRepoID, porterYamlPath |-> request.porterYamlPath,
   repoName |-> request.repoName, gitBranch |-> request.gitBranch,
   buildContext |-> request.buildContext, builder |-> request.builder,
   buildpacks |-> request.buildpacks, dockerfile |-> request.dockerfile,
   imageRepoURI |-> request.imageRepoURI, pullRequestURL |-> request.pullRequestURL]

\* Lines 197-222: the re-check for a row of the same name, then the new row.
Recheck(p) ==
  /\ h[p].pc = "recheck"
  /\ \E ok \in BOOLEAN :
       LET f        == h[p]
           f1       == Called(f, "ReadPorterAppByName", ok)
           existing == ReadPorterAppByName(apps, stackName)
       IN h' = [h EXCEPT ![p] =
                  IF ~ok THEN Return(HandleAPIError(f1, ErrReadApp))
                  ELSE IF existing.name # "" THEN Return(HandleAPIError(f1, ErrConflict))
                  ELSE Goto([f1 EXCEPT !.app = NewApp(f.request)], "insertApp")]
  /\ UNCHANGED <<ns, main, job, apps, events, started, pre, cli, boot>>

\* A write whose failure undoes the install of the main release.
InsertAppUndoes(p) ==
  /\ h[p].pc = "insertApp"
  /\ \E ok \in BOOLEAN :
       LET f  == h[p]
           f1 == Called(f, "UpdatePorterApp", ok)
       IN /\ apps' = IF ok THEN UpdatePorterApp(apps, f.app) ELSE apps
          /\ main' = IF ok THEN main ELSE UninstallChart(main, TRUE).slot
          /\ h' = [h EXCEPT ![p] =
                     IF ~ok THEN Return(HandleAPIError(Called(f1, "UninstallMain", TRUE),
                                                       ErrWriteApp))
                     ELSE Goto([f1 EXCEPT !.app = SavedApp(apps, f.app)], "createEvent")]
  /\ UNCHANGED <<ns, job, events, started, pre, cli, boot>>

\* Lines 224-229: the row is written.
InsertApp(p) ==
  /\ h[p].pc = "insertApp"
  /\ \E ok \in BOOLEAN :
       LET f  == h[p]
           f1 == Called(f, "UpdatePorterApp", ok)
       IN /\ apps' = IF ok THEN UpdatePorterApp(apps, f.app) ELSE apps
          /\ h' = [h EXCEPT ![p] =
                     IF ~ok THEN Return(HandleAPIError(f1, ErrWriteApp))
                     ELSE Goto([f1 EXCEPT !.app = SavedApp(apps, f.app)], "createEvent")]
  /\ UNCHANGED <<ns, main, job, events, started, pre, cli, boot>>

\* Lines 231-233: the event of revision 1 (its error is dropped), the result.
CreateEvent(p) ==
  /\ h[p].pc = "createEvent"
  /\ \E ok \in BOOLEAN :
       LET f  == h[p]
           f1 == Called([f EXCEPT !.revision = 1], "CreateEvent", ok)
       IN /\ events' = IF ok THEN Append(events, PorterAppEvent("SUCCESS", f.app.id, 1))
                             ELSE events
          /\ h' = [h EXCEPT ![p] = Return([f1 EXCEPT !.result = f.app, !.wrote = TRUE])]
  /\ UNCHANGED <<ns, main, job, apps, started, pre, cli, boot>>


\* ------------------------------------------------- the update path
\* Lines 236-239, 267: the probe of the job release, under override.
JobProbe(p) ==
  /\ h[p].pc = "jobProbe"
  /\ \E ok \in BOOLEAN :
       LET f   == h[p]
           got == GetRelease(job, ok)
           f1  == Called([f EXCEPT !.jobExisted = job.exists], "GetJobRelease", ~got.err)
       IN h' = [h EXCEPT ![p] = Goto(f1, AfterJobProbe(got.err, f.releaseJobValues))]
  /\ UNCHANGED <<ns, main, job, apps, events, started, pre, cli, boot>>

\* Lines 240-256: no job release was found: its chart config, then its
\* install, whatever the job values are.
InstallJob(p) ==
  /\ h[p].pc = "installJob"
  /\ \/ /\ h' = [h EXCEPT ![p] = Return(HandleAPIError(h[p], ErrJobConfig))]
        /\ job' = job
     \/ \E o \in InstallOutcomes :
          LET f   == h[p]
              got == InstallChart(job, o, NoValues, f.releaseJobValues)
              f1  == Called(f, "InstallJob", ~got.err)
          IN /\ job' = got.slot
             /\ h' = [h EXCEPT ![p] =
                        IF got.err
                          THEN Goto(HandleAPIError(f1, ErrJobInstall), "installJobRollback")
                          ELSE Goto(f1, "upgradeMain")]
  /\ UNCHANGED <<ns, main, apps, events, started, pre, cli, boot>>

\* Lines 257-261: the job release is uninstalled after its failed install.
InstallJobRollback(p) ==
  /\ h[p].pc = "installJobRollback"
  /\ \E ok \in BOOLEAN :
       LET got == UninstallChart(job, ok)
           f1  == Called(h[p], "UninstallJob", ~got.err)
       IN /\ job' = got.slot
          /\ h' = [h EXCEPT ![p] =
                     Return(IF got.err THEN HandleAPIError(f1, ErrJobUninstall) ELSE f1)]
  /\ UNCHANGED <<ns, main, apps, events, started, pre, cli, boot>>

\* Lines 267-272: the job release exists and the manifest has none: it is
\* uninstalled, and the handler returns whether or not that failed.
UninstallJob(p) ==
  /\ h[p].pc = "uninstallJob"
  /\ \E ok \in BOOLEAN :
       LET got == UninstallChart(job, ok)
           f1  == Called(h[p], "UninstallJob", ~got.err)
       IN /\ job' = got.slot
          /\ h' = [h EXCEPT ![p] =
                     Return(IF got.err THEN HandleAPIError(f1, ErrJobUninstall) ELSE f1)]
  /\ UNCHANGED <<ns, main, apps, events, started, pre, cli, boot>>

\* Lines 273-293: the job release exists and the manifest has one: its chart
\* is loaded and its values are upgraded in place.
UpgradeJob(p) ==
  /\ h[p].pc = "upgradeJob"
  /\ \/ /\ h' = [h EXCEPT ![p] = Return(HandleAPIError(h[p], ErrJobLoad))]
        /\ job' = job
     \/ \E ok \in BOOLEAN :
          LET f   == h[p]
              got == UpgradeReleaseByValues(job, ok, f.releaseJobValues)
              f1  == Called(f, "UpgradeJob", ~got.err)
          IN /\ job' = got.slot
             /\ h' = [h EXCEPT ![p] =
                        IF got.err THEN Return(HandleAPIError(f1, ErrJobUpgrade))
                                   ELSE Goto(f1, "upgradeMain")]
  /\ UNCHANGED <<ns, main, apps, events, started, pre, cli, boot>>

\* Lines 297-313: the main release is upgraded, or installed when it is gone.
UpgradeMain(p) ==
  /\ h[p].pc = "upgradeMain"
  /\ \E ok \in BOOLEAN :
       LET f   == h[p]
           got == UpgradeInstallChart(main, ok, f.values)
           f1  == Called(f, "UpgradeInstallMain", ~got.err)
       IN /\ main' = got.slot
          /\ h' = [h EXCEPT ![p] =
                     IF got.err THEN Return(HandleAPIError(f1, ErrDeploy))
                     ELSE Goto([f1 EXCEPT !.postVersion = got.slot.version], "readApp")]
  /\ UNCHANGED <<ns, job, apps, events, started, pre, cli, boot>>

\* Lines 331-337: an empty incoming value keeps the stored one, "null" clears
\* it, any other replaces it.
PatchField(stored, incoming) ==
  IF incoming # ""
    THEN IF incoming = "null" THEN "" ELSE incoming
    ELSE stored

\* Lines 322-324: an empty incoming value keeps the stored one, any other
\* replaces it.
CopyField(stored, incoming) ==
  IF incoming # "" THEN incoming ELSE stored

\* Lines 322-357: the stored row patched with the fields of the request.
PatchApp(app, request) ==
  [app EXCEPT !.repoName       = CopyField(@, request.repoName),
              !.gitBranch      = CopyField(@, request.gitBranch),
              !.buildContext   = CopyField(@, request.buildContext),
              !.builder        = PatchField(@, request.builder),
              !.buildpacks     = PatchField(@, request.buildpacks),
              !.dockerfile     = PatchField(@, request.dockerfile),
              !.imageRepoURI   = CopyField(@, request.imageRepoURI),
              !.pullRequestURL = CopyField(@, request.pullRequestURL)]

\* Lines 315-357: the stored row is read again and patched.
ReadApp(p) ==
  /\ h[p].pc = "readApp"
  /\ \E ok \in BOOLEAN :
       LET f   == h[p]
           f1  == Called(f, "ReadPorterAppByName", ok)
           app == ReadPorterAppByName(apps, stackName)
       IN h' = [h EXCEPT ![p] =
                  IF ~ok THEN Return(HandleAPIError(f1, ErrReadApp))
                  ELSE Goto([f1 EXCEPT !.app = PatchApp(app, f.request)], "updateApp")]
  /\ UNCHANGED <<ns, main, job, apps, events, started, pre, cli, boot>>

\* Lines 359-363: the patched row is written.
UpdateApp(p) ==
  /\ h[p].pc = "updateApp"
  /\ \E ok \in BOOLEAN :
       LET f  == h[p]
           f1 == Called(f, "UpdatePorterApp", ok)
       IN /\ apps' = IF ok THEN UpdatePorterApp(apps, f.app) ELSE apps
          /\ h' = [h EXCEPT ![p] =
                     IF ~ok THEN Return(HandleAPIError(f1, ErrWriteApp))
                     ELSE Goto([f1 EXCEPT !.app = SavedApp(apps, f.app)], "updateEvent")]
  /\ UNCHANGED <<ns, main, job, events, started, pre, cli, boot>>

\* Lines 365-367: the event of revision helmRelease.Version+1 (its error is
\* dropped), the result.
UpdateEvent(p) ==
  /\ h[p].pc = "updateEvent"
  /\ \E ok \in BOOLEAN :
       LET f   == h[p]
           rev == f.helmRelease.version + 1
           f1  == Called([f EXCEPT !.revision = rev], "CreateEvent", ok)
       IN /\ events' = IF ok THEN Append(events, PorterAppEvent("SUCCESS", f.app.id, rev))
                             ELSE events
          /\ h' = [h EXCEPT ![p] = Return([f1 EXCEPT !.result = f.app, !.wrote = TRUE])]
  /\ UNCHANGED <<ns, main, job, apps, started, pre, cli, boot>>

\* One step of goroutine p's handler after the request was received.
Step(p) ==
  \/ Probe(p)
  \/ ListRegistries(p)
  \/ ReadBuilder(p)
  \/ Parse(p)
  \/ CreateNamespace(p)
  \/ CreateJob(p)
  \/ CreateJobRollback(p)
  \/ InstallMain(p)
  \/ MainRollback(p)
  \/ Recheck(p)
  \/ InsertApp(p)
  \/ CreateEvent(p)
  \/ JobProbe(p)
  \/ InstallJob(p)
  \/ InstallJobRollback(p)
  \/ UninstallJob(p)
  \/ UpgradeJob(p)
  \/ UpgradeMain(p)
  \/ ReadApp(p)
  \/ UpdateApp(p)
  \/ UpdateEvent(p)

\* Requests served one after the other, over every request body.
Next == Start("g1") \/ Step("g1")

Spec == Init /\ [][Next]_vars

\* Requests served concurrently by the goroutines of Procs.
NextConc == \E p \in Procs : StartConc(p) \/ Step(p)

SpecConc == Init /\ [][NextConc]_vars

\* Requests that patch the row, served one after the other: the paths of a
\* request without override.
NextPatch ==
  \/ StartPatch("g1")
  \/ Probe("g1")
  \/ ListRegistries("g1")
  \/ ReadBuilder("g1")
  \/ Parse("g1")
  \/ CreateNamespace("g1")
  \/ InstallMain("g1")
  \/ MainRollback("g1")
  \/ Recheck("g1")
  \/ InsertApp("g1")
  \/ CreateEvent("g1")
  \/ UpgradeMain("g1")
  \/ ReadApp("g1")
  \/ UpdateApp("g1")
  \/ UpdateEvent("g1")

SpecPatch == Init /\ [][NextPatch]_vars

\* The deploy hook and the dashboard, their requests served one after the
\* other.
NextHook ==
  \/ HookRun
  \/ PostApply
  \/ ApplyStack
  \/ SendStack("g1")
  \/ StartApi("g1")
  \/ Step("g1")

SpecHook == Init /\ [][NextHook]_vars

\* The start-up of the server process.
NextBoot ==
  \/ LoadConfig
  \/ CopyKeyByte
  \/ NewRepository

SpecBoot == Init /\ [][NextBoot]_vars


\* ------------------------------------------------- properties
Calls(f) == {f.calls[i] : i \in 1..Len(f.calls)}

\* The probe of the main release returned a release.
ProbeFound(f) == Call("GetRelease", TRUE) \in Calls(f)

\* Every call of the request so far succeeded.
AllOk(f) == \A c \in Calls(f) : c.ok

\* The calls that change the cluster, and those that write to the store.
ClusterMutations ==
  {"CreateNamespace", "InstallMain", "UpgradeInstallMain", "UninstallMain",
   "InstallJob", "UpgradeJob", "UninstallJob"}
StoreWrites == {"UpdatePorterApp", "CreateEvent"}
JobMutations == {"InstallJob", "UpgradeJob", "UninstallJob"}

CreatePcs ==
  {"createNamespace", "createJob", "createJobRollback", "installMain",
   "mainRollback", "recheck", "insertApp", "createEvent"}
UpdatePcs ==
  {"jobProbe", "installJob", "installJobRollback", "uninstallJob", "upgradeJob",
   "upgradeMain", "readApp", "updateApp", "updateEvent"}

\* The operations of os occur in the calls of f in that order.
InOrder(f, os) ==
  \E idx \in [1..Len(os) -> 1..Len(f.calls)] :
    /\ \A k \in 1..Len(os) : f.calls[idx[k]].op = os[k]
    /\ \A k \in 1..(Len(os) - 1) : idx[k] < idx[k + 1]

\* C1: a request is on the create path exactly when its probe returned no
\* release (whatever the reason), on the update path otherwise, and never
\* both installs and upgrades the main release.
C1_OnePath ==
  \A p \in Procs :
    LET f == h[p] IN
      /\ f.pc \in CreatePcs => ~ProbeFound(f)
      /\ f.pc \in UpdatePcs => ProbeFound(f)
      /\ Ops(f) \cap {"CreateNamespace", "InstallMain"} # {} => ~ProbeFound(f)
      /\ "UpgradeInstallMain" \in Ops(f) => ProbeFound(f)
      /\ ~({"InstallMain", "UpgradeInstallMain"} \subseteq Ops(f))

\* A false negative of the probe has sent a request down the create path, up
\* to the install of the main release.
C1_Witness ==
  \E p \in Procs :
    /\ h[p].pc = "done"
    /\ h[p].mainAtProbe.exists
    /\ ~ProbeFound(h[p])
    /\ "InstallMain" \in Ops(h[p])

\* C2: when the main release exists and the probe fails, the release is
\* still there, with the values it had, once the request has finished.
C2_FalseNegativeBenign ==
  \A p \in Procs :
    LET f == h[p] IN
      (f.pc = "done" /\ f.mainAtProbe.exists /\ ~ProbeFound(f))
        => (main.exists /\ main.config = f.mainAtProbe.config)

\* The action of the table of the job release.
TableAction(existing, requested) ==
  IF ~existing /\ ~requested THEN "none"
  ELSE IF ~existing THEN "InstallJob"
  ELSE IF ~requested THEN "UninstallJob"
  ELSE "UpgradeJob"

\* The first call the request made on the job release, "none" without one.
JobAction(f) ==
  IF Ops(f) \cap JobMutations = {} THEN "none"
  ELSE f.calls[CHOOSE i \in 1..Len(f.calls) :
                  /\ f.calls[i].op \in JobMutations
                  /\ \A j \in 1..(i - 1) : f.calls[j].op \notin JobMutations].op

\* C3: under override, the call made on the job release is the one of the
\* table for (the job release exists, job values are requested); it is
\* settled once the request has reached the main release or made the call.
C3_JobTable ==
  \A p \in Procs :
    LET f == h[p] IN
      ( /\ f.request.override
        /\ \/ JobAction(f) # "none"
           \/ Ops(f) \cap {"InstallMain", "UpgradeInstallMain"} # {} )
        => JobAction(f) = TableAction(f.jobExisted, f.releaseJobValues # "")

\* C4: an update under override with no job values, a job release found and
\* no failing call uninstalls the job release, upgrades the main release,
\* writes the row, appends the event of revision (probed version + 1) and
\* returns the row.
C4_UninstallThenUpgrade ==
  \A p \in Procs :
    LET f == h[p] IN
      ( /\ f.pc = "done"
        /\ ProbeFound(f)
        /\ f.request.override
        /\ Call("parse", TRUE) \in Calls(f)
        /\ f.releaseJobValues = ""
        /\ Call("GetJobRelease", TRUE) \in Calls(f)
        /\ AllOk(f) )
        => /\ InOrder(f, <<"UninstallJob", "UpgradeInstallMain", "UpdatePorterApp",
                           "CreateEvent">>)
           /\ f.revision = f.helmRelease.version + 1
           /\ f.wrote

\* C5: after a request that returned its result, the job release exists
\* exactly when the request's job values are not empty; and an update
\* without job values, with no failing call, leaves no job release.  Stated
\* for the requests that manage the job release (override), the only ones
\* for which the handler looks at it.
C5_JobIffRequested ==
  \A p \in Procs :
    LET f == h[p] IN
      /\ (f.pc = "done" /\ f.request.override /\ f.wrote)
           => (job.exists <=> f.releaseJobValues # "")
      /\ ( /\ f.pc = "done"
           /\ f.request.override
           /\ ProbeFound(f)
           /\ Call("parse", TRUE) \in Calls(f)
           /\ f.releaseJobValues = ""
           /\ AllOk(f) )
           => ~job.exists

\* C6: a request that failed on decoding or on parsing the manifest made no
\* call that changes the cluster and no write to the store: the namespace,
\* the releases, the rows and the events are those it found.
C6_NoMutationBeforeParse ==
  \A p \in Procs :
    LET f == h[p] IN
      (f.errs # <<>> /\ f.errs[1] \in {ErrDecodeYaml, ErrParse})
        => /\ Ops(f) \cap (ClusterMutations \cup StoreWrites) = {}
           /\ ~f.wrote
           /\ Snapshot(pre.repeat) = pre

\* parse has failed for a request whose main release exists.
C6_Witness ==
  \E p \in Procs :
    /\ h[p].pc = "done"
    /\ h[p].errs = <<ErrParse>>
    /\ Call("parse", FALSE) \in Calls(h[p])
    /\ main.exists

\* C7: after a failed install of the main release the next and last call is
\* its uninstall; the install error is the first error reported, the
\* uninstall error follows it when the uninstall failed too; no row is
\* written, no event appended, no result returned.
C7_InstallFailure ==
  \A p \in Procs :
    LET f == h[p] IN
      (f.pc = "done" /\ Call("InstallMain", FALSE) \in Calls(f))
        => /\ f.calls[Len(f.calls) - 1] = Call("InstallMain", FALSE)
           /\ f.calls[Len(f.calls)].op = "UninstallMain"
           /\ f.errs = IF f.calls[Len(f.calls)].ok
                         THEN <<ErrDeploy>> ELSE <<ErrDeploy, ErrUninstall>>
           /\ Ops(f) \cap StoreWrites = {}
           /\ ~f.wrote

\* The install of the main release and its rollback have both failed.
C7_Witness ==
  \E p \in Procs :
    /\ h[p].pc = "done"
    /\ Call("CreateNamespace", TRUE) \in Calls(h[p])
    /\ Call("InstallMain", FALSE) \in Calls(h[p])
    /\ Call("UninstallMain", FALSE) \in Calls(h[p])

\* C8: the store never holds two rows of the application's name, and a
\* request whose re-check found a row ends with the conflict error, writes
\* no row and appends no event.
C8_OneRowPerName ==
  /\ Cardinality(RowsByName(apps, stackName)) <= 1
  /\ \A p \in Procs :
       ErrConflict \in {h[p].errs[i] : i \in 1..Len(h[p].errs)}
         => (h[p].pc = "done" /\ Ops(h[p]) \cap StoreWrites = {})

\* A request has issued its probe and has not returned.
InFlight(p) == h[p].pc \notin {"idle", "probe", "done"}

\* C9: while one request is between its probe and its return, no other
\* request for the application has issued its probe.
C9_MutualExclusion ==
  \A p, q \in Procs : (p # q /\ InFlight(p)) => ~InFlight(q)

\* C10: the revision of an appended event is the version the main release
\* had right after the request's install or upgrade: 1 on the create path,
\* the probed version + 1 on the update path.
C10_RevisionIsVersion ==
  \A p \in Procs :
    LET f == h[p] IN
      Call("CreateEvent", TRUE) \in Calls(f)
        => /\ f.revision = f.postVersion
           /\ f.revision = IF ProbeFound(f) THEN f.helmRelease.version + 1 ELSE 1
           /\ \E i \in 1..Len(events) :
                events[i].appID = f.app.id /\ events[i].revision = f.revision


\* C11: a request that returned its result has appended exactly one event,
\* of type DEPLOY and for the row it returned, to the events it found; a
\* request that ended without a result has appended none.
C11_OneEventPerSuccess ==
  \A p \in Procs :
    LET f == h[p] IN
      f.pc = "done"
        => IF f.wrote
             THEN events = Append(pre.events,
                                  PorterAppEvent("SUCCESS", f.result.id, f.revision))
             ELSE events = pre.events


\* C14: a request that has returned delivered either its result or at least
\* one error, and not both.
C14_OneOutcome ==
  \A p \in Procs :
    h[p].pc = "done" => (h[p].wrote <=> h[p].errs = <<>>)

MainOk == {Call("InstallMain", TRUE), Call("UpgradeInstallMain", TRUE)}

\* C15: on the create path every install comes after the namespace was
\* created; a write to the store comes after the request's own install or
\* upgrade of the main release has succeeded; and a create that finds no
\* release and meets no failure ends with the namespace, the main release at
\* version 1, one row of the name and one more event, of revision 1.
C15_Order ==
  \A p \in Procs :
    LET f == h[p] IN
      /\ \A i \in 1..Len(f.calls) :
           (f.calls[i].op \in {"InstallJob", "InstallMain"} /\ ~ProbeFound(f))
             => \E j \in 1..(i - 1) : f.calls[j] = Call("CreateNamespace", TRUE)
      /\ \A i \in 1..Len(f.calls) :
           f.calls[i].op \in StoreWrites
             => \E j \in 1..(i - 1) : f.calls[j] \in MainOk
      /\ ( /\ f.pc = "done"
           /\ f.errs = <<>>
           /\ f.calls # <<>>
           /\ f.calls[1] = Call("GetRelease", FALSE)
           /\ ~pre.main.exists
           /\ \A i \in 2..Len(f.calls) : f.calls[i].ok )
           => /\ ns
              /\ main.exists /\ main.version = 1 /\ main.config = f.values
              /\ Cardinality(RowsByName(apps, stackName)) = 1
              /\ apps = Append(pre.apps, f.result)
              /\ events = Append(pre.events, PorterAppEvent("SUCCESS", f.result.id, 1))
              /\ f.wrote

\* A create without a prior release has gone through without a failure.
C15_Witness ==
  \E p \in Procs :
    /\ h[p].pc = "done"
    /\ h[p].wrote
    /\ ~pre.main.exists
    /\ h[p].calls[1] = Call("GetRelease", FALSE)
    /\ Call("CreateEvent", TRUE) \in Calls(h[p])

\* C17: after a failed install or upgrade of the job release the next and
\* last call is its uninstall; the install/upgrade error is reported first,
\* the uninstall error after it when the uninstall failed too; the main
\* release is neither installed nor upgraded.
C17_JobFailureRollsBack ==
  \A p \in Procs :
    LET f == h[p]
        n == Len(f.calls)
    IN \A i \in 1..n :
         ( /\ f.pc = "done"
           /\ f.calls[i] \in {Call("InstallJob", FALSE), Call("UpgradeJob", FALSE)} )
           => /\ i = n - 1
              /\ f.calls[n].op = "UninstallJob"
              /\ f.errs =
                   <<IF f.calls[i].op = "InstallJob" THEN ErrJobInstall ELSE ErrJobUpgrade>>
                   \o (IF f.calls[n].ok THEN <<>> ELSE <<ErrJobUninstall>>)
              /\ Ops(f) \cap {"InstallMain", "UpgradeInstallMain"} = {}

\* C19: a request without the override flag makes no call on the job
\* release, and the job release is the one it found.
C19_NoOverrideNoJobCall ==
  \A p \in Procs :
    LET f == h[p] IN
      (f.pc # "idle" /\ ~f.request.override)
        => /\ Ops(f) \cap (JobMutations \cup {"GetJobRelease"}) = {}
           /\ job = pre.job

\* A request without override has returned its result for a manifest without
\* a release job while a job release exists.
C19_Witness ==
  \E p \in Procs :
    /\ h[p].pc = "done"
    /\ h[p].wrote
    /\ ~h[p].request.override
    /\ h[p].releaseJobValues = ""
    /\ job.exists

C12_PatchRule ==
  \A p \in Procs :
    LET f   == h[p]
        row == ReadPorterAppByName(pre.apps, stackName)
    IN (f.pc = "done" /\ f.wrote /\ ProbeFound(f) /\ row.id # 0)
         => \A fld \in PatchableFields :
              f.result[fld] = PatchField(row[fld], f.body[fld])

Full(imageInfo) == imageInfo.repository # <<>> /\ imageInfo.tag # <<>>

\* C13: the image info handed to parse is the request's pair when that is a
\* full pair; otherwise, on a create or an override that probed a release, it
\* is the image stored in that release; and the pair the deploy hook took
\* from the build output is handed on only by requests for which the release
\* supplies none.
C13_ImagePriority ==
  \A p \in Procs :
    LET f == h[p] IN
      Call("ListRegistries", TRUE) \in Calls(f)
        => /\ Full(f.body.image) => f.imageInfo = f.body.image
           /\ ( /\ ~Full(f.body.image)
                /\ f.shouldCreate \/ f.body.override
                /\ f.helmRelease.exists )
                => f.imageInfo = f.helmRelease.config.image
           /\ cli.pc = "sent"
                => /\ f.body.image = cli.imageInfo
                   /\ ~((f.shouldCreate \/ f.body.override) /\ f.helmRelease.exists)
                   /\ f.imageInfo = cli.imageInfo

\* An overriding request with a full pair has been parsed while the release
\* stores another image.
C13_Witness ==
  \E p \in Procs :
    /\ Call("parse", TRUE) \in Calls(h[p])
    /\ h[p].body.override
    /\ Full(h[p].body.image)
    /\ h[p].helmRelease.exists
    /\ Full(h[p].helmRelease.config.image)
    /\ h[p].helmRelease.config.image # h[p].body.image
    /\ h[p].imageInfo = h[p].body.image

\* C16: an update that repeats the request before it, itself an applied
\* update, leaves the main release's values as they were and its version one
\* higher.
C16_UpdateIdempotent ==
  \A p \in Procs :
    LET f == h[p] IN
      (pre.repeat /\ ProbeFound(f) /\ Call("UpgradeInstallMain", TRUE) \in Calls(f))
        => /\ main.config = pre.main.config
           /\ main.version = pre.main.version + 1

\* The text before and after the first colon of a build-output string.
AroundFirstColon(s) ==
  IF Colons(s) = {} THEN [repository |-> s, tag |-> <<>>]
  ELSE LET i == CHOOSE c \in Colons(s) : \A d \in Colons(s) : c <= d
       IN [repository |-> SubSeq(s, 1, i - 1), tag |-> SubSeq(s, i + 1, Len(s))]

\* C18: the deploy hook never aborts on its build output, and the image info
\* it sends is the zero value or the text around the first colon.
C18_BuildOutputNeverAborts ==
  /\ cli.pc # "panic"
  /\ cli.pc \in {"send", "sent"}
       => \/ cli.imageInfo = ZeroImage
          \/ cli.imageInfo = AroundFirstColon(cli.driverOutput.image)


\* The request returns its result in this step, on the update path, after its
\* upgrade-or-install found the probed main release gone and installed it.
ReturnsAfterReinstall(p) ==
  /\ h[p].pc # "done"
  /\ h'[p].pc = "done"
  /\ h'[p].wrote
  /\ ProbeFound(h'[p])
  /\ h'[p].mainAtProbe.exists
  /\ Call("UpgradeInstallMain", TRUE) \in Calls(h'[p])
  /\ h'[p].postVersion = 1

\* C21: an update whose probed main release was removed before its
\* upgrade-or-install call, and whose call succeeded, returns with the main
\* release on the platform.
C21_ReinstalledAtReturn ==
  [][\A p \in Procs : ReturnsAfterReinstall(p) => main'.exists]_vars


\* C22: a create that installed the job release, failed to install the main
\* release and uninstalled with success has returned with neither release on
\* the platform.
C22_FailedCreateLeavesNothing ==
  \A p \in Procs :
    LET f == h[p] IN
      ( /\ f.pc = "done"
        /\ f.shouldCreate
        /\ Call("InstallJob", TRUE) \in Calls(f)
        /\ Call("InstallMain", FALSE) \in Calls(f)
        /\ \A c \in Calls(f) : c.op \in {"UninstallMain", "UninstallJob"} => c.ok )
        => ~main.exists /\ ~job.exists


\* The fields that say which application a row is of.
IdentityFields == {"name", "clusterID", "projectID", "gitRepoID", "porterYamlPath"}

\* C23: an update that wrote the row wrote the row stored for the
\* application, under its key and with its identity fields as they were, and
\* added no row.
C23_UpdateKeepsIdentity ==
  \A p \in Procs :
    LET f   == h[p]
        row == ReadPorterAppByName(pre.apps, stackName)
    IN (f.pc = "done" /\ ProbeFound(f) /\ Call("UpdatePorterApp", TRUE) \in Calls(f))
         => /\ row.id # 0
            /\ f.app.id = row.id
            /\ \A fld \in IdentityFields : f.app[fld] = row[fld]
            /\ Len(apps) = Len(pre.apps)


====
